---- MODULE Spec2Model ----
(***************************************************************************)
(* A model of the FIFO work-stealing coroutine scheduler                   *)
(* (src/src/scheduler/*.rs, linux build of the readiness handler).         *)
(*                                                                         *)
(* Thread 0 is the thread that calls Scheduler::run; the other threads     *)
(* are the worker threads start_sub_threads creates.  A coroutine's user   *)
(* code is a script: a finite sequence of the runtime calls it makes       *)
(* (spawn, yield, wait_event, ...); when the script is used up the         *)
(* coroutine returns.                                                      *)
(***************************************************************************)
EXTENDS Integers, Sequences, FiniteSets, TLC

\* ------------------------------------------------------------------ bounds
MaxWorkers == 1        \* worker threads created over all runs
MaxCoros == 3          \* coroutines created over all runs
MaxFd == 2             \* descriptors user code waits on
MaxTokens == 2         \* slab capacity (MAX_TOKEN_NUM = 102400 in the source)
MaxRuns == 2           \* calls of Scheduler::run
PeerWorkers == 2       \* worker threads of the peer scenario (PeerSpec)
MaxData == 3           \* what a descriptor can hold ready (ShimSpec)
MaxCalls == 2          \* shim calls a coroutine makes (ShimSpec)
MaxDeliveries == 3     \* events the poller reports (HandlerSpec)
MaxHandles == 12       \* coroutines spawned on one scheduler (ReadySpec)
MaxTurns == 3          \* re-enqueues of a suspended coroutine (ReadySpec)

\* -------------------------------------------------------- program constants
MAX_PRIVATE_WORK_NUM == 10

Main == 0
\* the worker threads Scheduler::run may create
Pool == 1..MaxWorkers
\* the worker threads the peer scenario may create
PeerPool == 1..PeerWorkers
\* every worker thread of the model
Workers == Pool \cup PeerPool
Threads == {Main} \cup Workers
Coros == 1..MaxCoros
FDs == 1..MaxFd
Tokens == 0..(MaxTokens - 1)
NoTok == 0 - 1

Terminal == {"Finished", "Panicked"}
LoopPcs == {"recv", "poll", "private", "public", "steal", "sleep",
            "run_private", "run_public"}
RunPcs == {"run_private", "run_public"}

\* ------------------------------------------------------------- user scripts
Yield == <<"yield", 0>>
SpawnOp == <<"spawn", 0>>
PanicOp == <<"panic", 0>>
RunOp == <<"run", 0>>
Wait(f) == <<"wait", f>>
Notify(f) == <<"notify", f>>

\* a descriptor the poller refuses to register (a regular file: EPERM)
BadFd == MaxFd + 1

\* what a coroutine created by Scheduler::spawn may do
Scripts ==
    {<<>>, <<Yield>>, <<PanicOp>>, <<SpawnOp>>, <<Notify(1)>>,
     <<Wait(BadFd)>>, <<Wait(BadFd), Yield>>}
    \cup {<<Wait(f)>> : f \in FDs}

\* a failed wait, whose error the caller ignores, and then a wait that parks
LeakThenPark == <<Wait(BadFd), Wait(1)>>

\* as many failed waits as the slab has slots, and one wait more
FillThenWait == [i \in 1..(MaxTokens + 1) |-> IF i <= MaxTokens THEN Wait(BadFd) ELSE Wait(1)]

\* what the function handed to Scheduler::run may do
InitScripts ==
    Scripts \cup {<<RunOp>>, <<SpawnOp, SpawnOp>>, <<SpawnOp, Notify(1)>>,
                  LeakThenPark, FillThenWait}

\* user code of the peer scenario: return at once, ignore a failed wait and
\* return, or wait for descriptor 2
PeerScripts == {<<>>, <<Wait(BadFd)>>, <<Wait(2)>>}

\* the interest a wait on descriptor f registers
InterestOf(f) == IF f % 2 = 1 THEN "readable" ELSE "writable"

VARIABLES
    started,     \* SCHEDULER_HAS_STARTED
    registry,    \* THREAD_HANDLES: the (sender, stealer) pairs, by thread
    counter,     \* start_sub_threads' counter
    nthreads,    \* the `threads` argument of the run in progress
    members,     \* the threads of the latest run
    initial,     \* the coroutine running start_main in the latest run
    runs,        \* calls of run that passed the compare-and-swap
    active,      \* invocations of run between their CAS and their return
    pc,          \* each thread's position
    cur,         \* the coroutine a thread is resuming (0: none)
    chan,        \* commchannel of each thread
    neighbors,   \* neighbors of each thread's scheduler
    private,     \* private_work
    public,      \* the public work deque, oldest first
    slab,        \* eventloop_handler.slabs
    reg,         \* the poller's registrations: descriptor -> token
    fdReady,     \* descriptors that are ready
    co,          \* Handle::state of each coroutine ("Unborn": not created)
    script,      \* what is left of each coroutine's code
    gotShutdown, \* history: the thread's recv_msg has returned false
    sdCount,     \* history: Shutdown messages enqueued for the thread
    refused,     \* history: a nested run was refused by the CAS
    iter,        \* history, per thread: in the current loop iteration a
                 \* coroutine was resumed / a slab entry was added
    capErr,      \* history: coroutines whose wait_event found the slab full
    parent,      \* history: the coroutine whose spawn created this one (0: run)
    fresh,       \* history: coroutines not yet taken off the queue spawn put them on
    shim,        \* the I/O shims of main.rs (ShimSpec only)
    hnd,         \* history of the handler calls (HandlerSpec only)
    rq           \* one scheduler's queues under ready and pop (ReadySpec only)

\* the history variables of the scheduler
hist == <<iter, capErr, parent, fresh>>

\* the scheduler's variables
sched == <<started, registry, counter, nthreads, members, initial, runs, active,
           pc, cur, chan, neighbors, private, public, slab, reg, fdReady, co,
           script, gotShutdown, sdCount, refused, iter, capErr, parent, fresh>>

vars == <<started, registry, counter, nthreads, members, initial, runs, active,
          pc, cur, chan, neighbors, private, public, slab, reg, fdReady, co,
          script, gotShutdown, sdCount, refused, iter, capErr, parent, fresh,
          shim, hnd, rq>>

\* ------------------------------------------------------------------ helpers
Range(s) == {s[i] : i \in 1..Len(s)}

EmptySlot == [co |-> 0, fd |-> 0]
EmptySlab == [k \in Tokens |-> EmptySlot]
NoReg == [f \in FDs |-> NoTok]

\* mutant: every NewNeighbor carries the main thread's sender and stealer
NewNeighborOfMain(t) == [type |-> "NewNeighbor", from |-> Main]

NewNeighbor(t) == [type |-> "NewNeighbor", from |-> t]
Shutdown == [type |-> "Shutdown", from |-> NoTok]

SpawnCount(s) == Cardinality({i \in 1..Len(s) : s[i] = SpawnOp})
Unborn == {c \in Coros : co[c] = "Unborn"}
\* coroutines that existing scripts will still create
Reserved == LET live == {c \in Coros : co[c] \notin Terminal \cup {"Unborn"}}
                RECURSIVE Sum(_)
                Sum(S) == IF S = {} THEN 0
                          ELSE LET c == CHOOSE x \in S : TRUE
                               IN SpawnCount(script[c]) + Sum(S \ {c})
            IN Sum(live)
NextCoro == CHOOSE c \in Unborn : \A d \in Unborn : c <= d

\* a Receiver lives as long as its thread's scheduler
Alive(t) == pc[t] \notin {"unborn", "init", "exited"}
HasScheduler(t) == t \in Range(registry)


\* ------------------------------------------------- pure pieces of the code

\* mutant: the compare-and-swap leaves the flag as it found it
cas_without_store(old) == [prev |-> old, now |-> old]

\* compare_and_swap(false, true): the value found and the value left
compare_and_swap(old) ==
    [prev |-> old, now |-> IF old = FALSE THEN TRUE ELSE old]

\* mutant: start_sub_threads does not wait for its threads
BarrierSkipped(cnt, n) == TRUE

\* start_sub_threads' spin: while counter != threads - 1 {}
BarrierOpen(cnt, n) == cnt = n - 1

\* Scheduler::ready on the pair of queues q = [private, public]
\* mutant: ready without the is_empty test, which always takes the private
\* queue
readyPrivateOnly(q, work) == [q EXCEPT !.private = Append(@, work)]

\* mutant: ready puts the handle at the front of the queue it chooses
readyFront(q, work) ==
    IF q.private = <<>> /\ Len(q.private) < MAX_PRIVATE_WORK_NUM
    THEN [q EXCEPT !.public = <<work>> \o @]
    ELSE [q EXCEPT !.private = <<work>> \o @]

ready(q, work) ==
    IF q.private = <<>> /\ Len(q.private) < MAX_PRIVATE_WORK_NUM
    THEN [q EXCEPT !.public = Append(@, work)]
    ELSE [q EXCEPT !.private = Append(@, work)]

\* resume_coroutine's first match: the states it resumes
Resumable(state) == state \in {"Suspended", "Blocked"}

\* mutant: resume_coroutine re-enqueues a blocked coroutine as well
RequeueBlockedToo(state) == state \in {"Suspended", "Blocked"}

\* mutant: resume_coroutine re-enqueues a panicked coroutine as well
RequeuePanickedToo(state) == state \in {"Suspended", "Panicked"}

\* resume_coroutine's second match: the state it re-enqueues
Requeue(state) == state = "Suspended"

\* mutant: wait_event yields with Coroutine::sched() instead of block()
BlockAsSuspended == "Suspended"

\* the state Coroutine::block() leaves the caller in
BlockState == "Blocked"

\* mutant: recv_msg returns true for Shutdown too
RecvAlwaysContinues(msg) == TRUE

\* recv_msg's result for a received message
RecvContinues(msg) == msg.type /= "Shutdown"

\* mutant: the loop takes the slab to hold an entry at all times
AlwaysWaiting(s) == TRUE

\* has_io_waiting_task / the test of run_eventloop_once
SlabIsEmpty(s) == \A k \in Tokens : s[k] = EmptySlot
has_io_waiting_task(s) == ~SlabIsEmpty(s)

\* mutant: Slab::insert refuses when one slot is left
HasTwoRemaining(s) == Cardinality({k \in Tokens : s[k] = EmptySlot}) >= 2

\* Slab::insert: the slot it hands out (none when the slab is full)
HasRemaining(s) == \E k \in Tokens : s[k] = EmptySlot
FreeToken(s) ==
    CHOOSE k \in Tokens : s[k] = EmptySlot /\ \A j \in Tokens : s[j] = EmptySlot => k <= j

\* EventLoop::deregister
deregister(r, fd) == [r EXCEPT ![fd] = NoTok]

\* mutant: the handler of the kernel-queue family, which does not deregister
writable_without_deregister(st, token) ==
    IF st.slab[token] /= EmptySlot
    THEN [slab |-> [st.slab EXCEPT ![token] = EmptySlot],
          reg |-> st.reg,
          q |-> ready(st.q, st.slab[token].co)]
    ELSE st

\* mutant: readable readies the handle and leaves its slot in the slab
readable_keeps_slot(st, token) ==
    IF st.slab[token] /= EmptySlot
    THEN [slab |-> st.slab,
          reg |-> deregister(st.reg, st.slab[token].fd),
          q |-> ready(st.q, st.slab[token].co)]
    ELSE st

\* Handler::writable on a thread's state st = [slab, reg, q]
writable(st, token) ==
    IF st.slab[token] /= EmptySlot
    THEN [slab |-> [st.slab EXCEPT ![token] = EmptySlot],
          reg |-> deregister(st.reg, st.slab[token].fd),
          q |-> ready(st.q, st.slab[token].co)]
    ELSE st

\* Handler::readable
readable(st, token) ==
    IF st.slab[token] /= EmptySlot
    THEN [slab |-> [st.slab EXCEPT ![token] = EmptySlot],
          reg |-> deregister(st.reg, st.slab[token].fd),
          q |-> ready(st.q, st.slab[token].co)]
    ELSE st

\* EventLoop::run_once: the handler calls for the events evs, a sequence of
\* [fd, token] in the order the poller reports them
RECURSIVE Dispatch(_, _, _)
Dispatch(evs, i, st) ==
    IF i > Len(evs) THEN st
    ELSE Dispatch(evs, i + 1,
                  IF InterestOf(evs[i].fd) = "readable"
                  THEN readable(st, evs[i].token)
                  ELSE writable(st, evs[i].token))

\* the orders in which the poller may report the events of the set S
Orders(S) ==
    {s \in [1..Cardinality(S) -> S] : \A i, j \in 1..Cardinality(S) : s[i] = s[j] => i = j}

\* mutant: steal_works copies the front handle and leaves it with the victim
steal_without_removing(nbrs, i, pub, batch) ==
    LET victims == SelectSeq(nbrs, LAMBDA n : pub[n] /= <<>>)
    IN [pub |-> pub, batch |-> [k \in 1..Len(victims) |-> Head(pub[victims[k]])]]

\* steal_works: one steal per neighbor, in order; pub is every thread's deque
RECURSIVE steal_works(_, _, _, _)
steal_works(nbrs, i, pub, batch) ==
    IF i > Len(nbrs) THEN [pub |-> pub, batch |-> batch]
    ELSE IF pub[nbrs[i]] /= <<>>
         THEN steal_works(nbrs, i + 1, [pub EXCEPT ![nbrs[i]] = Tail(@)],
                          Append(batch, Head(pub[nbrs[i]])))
         ELSE steal_works(nbrs, i + 1, pub, batch)

\* for work in stolen_works { self.ready(work) }
RECURSIVE ReadyAll(_, _, _)
ReadyAll(q, batch, i) ==
    IF i > Len(batch) THEN q ELSE ReadyAll(ready(q, batch[i]), batch, i + 1)

\* the `while run_one_work() && !has_io_waiting_task() {}` loop after a work
\* has been run in `phase`, and the `continue` that follows it
AfterWork(phase, s) == IF has_io_waiting_task(s) THEN "recv" ELSE phase

\* mutant: the loop never sleeps
AfterStealNoSleep(batch) == "recv"

\* `if !has_stolen { thread::sleep_ms(100); }`
AfterSteal(batch) == IF batch = <<>> THEN "sleep" ELSE "recv"

\* the same when the queue gave no work
AfterEmpty(next, s) == IF has_io_waiting_task(s) THEN "recv" ELSE next

\* Scheduler::new: the channels after NewNeighbor went to every registered
\* sender (a send to a dropped receiver fails and is ignored)
SendToAll(msg) ==
    [u \in Threads |->
        IF u \in Range(registry) /\ Alive(u) THEN Append(chan[u], msg) ELSE chan[u]]

\* no coroutine resumed and no slab entry added in the iteration so far
NoIter == [resumed |-> FALSE, grown |-> FALSE]

\* the iteration's history when the thread goes on at newpc: an iteration
\* ends where the loop goes back to recv_msg
IterAt(newpc, it) == IF newpc = "recv" THEN NoIter ELSE it

\* no shim call is modelled
ShimOff ==
    [op |-> "none", phase |-> "off", avail |-> 0, buf |-> 0, calls |-> 0,
     readyAtCall |-> FALSE, trace |-> <<>>, result |-> "none"]

\* ------------------------------------------------------------------- Init
SchedInit ==
    /\ started = FALSE
    /\ registry = <<>>
    /\ counter = 0
    /\ nthreads = 0
    /\ members = {}
    /\ initial = 0
    /\ runs = 0
    /\ active = 0
    /\ pc = [t \in Threads |-> IF t = Main THEN "norun" ELSE "unborn"]
    /\ cur = [t \in Threads |-> 0]
    /\ chan = [t \in Threads |-> <<>>]
    /\ neighbors = [t \in Threads |-> <<>>]
    /\ private = [t \in Threads |-> <<>>]
    /\ public = [t \in Threads |-> <<>>]
    /\ slab = [t \in Threads |-> EmptySlab]
    /\ reg = [t \in Threads |-> NoReg]
    /\ fdReady = [f \in FDs |-> FALSE]
    /\ co = [c \in Coros |-> "Unborn"]
    /\ script = [c \in Coros |-> <<>>]
    /\ gotShutdown = [t \in Threads |-> FALSE]
    /\ sdCount = [t \in Threads |-> 0]
    /\ refused = FALSE
    /\ iter = [t \in Threads |-> NoIter]
    /\ capErr = {}
    /\ parent = [c \in Coros |-> 0]
    /\ fresh = {}

\* no handler call is recorded
HndOff == [n |-> 0, token |-> NoTok, live |-> FALSE, fdOf |-> [k \in Tokens |-> 0]]

\* no queue scenario is modelled
RqOff == [private |-> <<>>, public |-> <<>>, next |-> 0, turns |-> 0]

Init == SchedInit /\ shim = ShimOff /\ hnd = HndOff /\ rq = RqOff

\* ---------------------------------------------------------- Scheduler::run
Budget ==
    Cardinality(Unborn) - Reserved - (IF pc[Main] = "barrier" THEN 1 ELSE 0)

FreeWorkers(pool) == {w \in pool : pc[w] = "unborn"}
FirstFree(pool, k) ==
    {w \in FreeWorkers(pool) : Cardinality({v \in FreeWorkers(pool) : v < w}) < k}

\* run(f, n) up to the end of start_sub_threads' spawn loop, with the worker
\* threads taken from pool and n from sizes
Run(pool, sizes) ==
    /\ pc[Main] = "norun"
    /\ runs < MaxRuns
    /\ Budget >= 1
    /\ \E n \in sizes \cap (1..(Cardinality(FreeWorkers(pool)) + 1)) :
         LET cas == compare_and_swap(started) IN
         IF cas.prev /= FALSE
         THEN UNCHANGED vars              \* panic!("Schedulers are already running!")
         ELSE /\ started' = cas.now
              /\ active' = active + 1
              /\ runs' = runs + 1
              /\ nthreads' = n
              /\ counter' = 0
              /\ members' = {Main} \cup FirstFree(pool, n - 1)
              /\ pc' = [t \in Threads |->
                          IF t = Main THEN "barrier"
                          ELSE IF t \in FirstFree(pool, n - 1) THEN "init" ELSE pc[t]]
              /\ gotShutdown' = [gotShutdown EXCEPT ![Main] = FALSE]
              /\ sdCount' = [t \in Threads |-> 0]
              /\ UNCHANGED <<registry, initial, cur, chan, neighbors, private,
                             public, slab, reg, fdReady, co, script, refused,
                             hist, shim, hnd, rq>>

\* Scheduler::run(f, threads) with any number of threads the bounds allow
RunCall == Run(Pool, 1..(MaxWorkers + 1))

\* a worker thread's closure up to current.schedule(): Scheduler::current()
\* builds the thread's scheduler (Scheduler::new), then counter.fetch_add(1)
WorkerInit(w) ==
    /\ pc[w] = "init"
    /\ chan' = SendToAll(NewNeighbor(w))
    /\ neighbors' = [neighbors EXCEPT ![w] = registry]
    /\ registry' = Append(registry, w)
    /\ counter' = counter + 1
    /\ pc' = [pc EXCEPT ![w] = "recv"]
    /\ UNCHANGED <<started, nthreads, members, initial, runs, active, cur,
                   private, public, slab, reg, fdReady, co, script,
                   gotShutdown, sdCount, refused, hist, shim, hnd, rq>>

\* the end of start_sub_threads' spin, then Scheduler::spawn(start_main(f)):
\* Scheduler::current() builds the caller's scheduler on its first use, the
\* new coroutine is made ready, and Coroutine::sched() returns at once on the
\* thread's root context
SpawnMainOf(scripts) ==
    /\ pc[Main] = "barrier"
    /\ BarrierOpen(counter, nthreads)
    /\ \E s \in scripts :
         /\ SpawnCount(s) <= Budget
         /\ LET d == NextCoro
                q == ready([private |-> private[Main], public |-> public[Main]], d)
            IN /\ co' = [co EXCEPT ![d] = "Suspended"]
               /\ script' = [script EXCEPT ![d] = s]
               /\ initial' = d
               /\ private' = [private EXCEPT ![Main] = q.private]
               /\ public' = [public EXCEPT ![Main] = q.public]
    /\ IF HasScheduler(Main)
       THEN UNCHANGED <<chan, neighbors, registry>>
       ELSE /\ chan' = SendToAll(NewNeighbor(Main))
            /\ neighbors' = [neighbors EXCEPT ![Main] = registry]
            /\ registry' = Append(registry, Main)
    /\ pc' = [pc EXCEPT ![Main] = "recv"]
    /\ UNCHANGED <<started, counter, nthreads, members, runs, active, cur, slab,
                   reg, fdReady, gotShutdown, sdCount, refused, hist, shim, hnd, rq>>

\* the function handed to run is any of InitScripts
SpawnMain == SpawnMainOf(InitScripts)

\* ----------------------------------------------------- Scheduler::schedule

\* recv_msg, and what follows when it returns false: schedule returns; in
\* run the flag is cleared and run returns; in a worker the thread ends and
\* its thread-local scheduler is dropped
RecvMsg(t) ==
    /\ pc[t] = "recv"
    /\ IF chan[t] = <<>>
       THEN /\ pc' = [pc EXCEPT ![t] = "poll"]
            /\ UNCHANGED <<started, active, chan, neighbors, private, slab, reg,
                           gotShutdown>>
       ELSE IF RecvContinues(Head(chan[t]))
       THEN /\ pc' = [pc EXCEPT ![t] = "poll"]
            /\ chan' = [chan EXCEPT ![t] = Tail(@)]
            /\ neighbors' = IF Head(chan[t]).type = "NewNeighbor"
                            THEN [neighbors EXCEPT ![t] = Append(@, Head(chan[t]).from)]
                            ELSE neighbors
            /\ gotShutdown' = IF Head(chan[t]).type = "Shutdown"
                              THEN [gotShutdown EXCEPT ![t] = TRUE]
                              ELSE gotShutdown
            /\ UNCHANGED <<started, active, private, slab, reg>>
       ELSE /\ gotShutdown' = [gotShutdown EXCEPT ![t] = TRUE]
            /\ IF t = Main
               THEN /\ pc' = [pc EXCEPT ![t] = "norun"]
                    /\ started' = FALSE
                    /\ active' = active - 1
                    /\ chan' = [chan EXCEPT ![t] = Tail(@)]
                    /\ UNCHANGED <<neighbors, private, slab, reg>>
               ELSE /\ pc' = [pc EXCEPT ![t] = "exited"]
                    /\ chan' = [chan EXCEPT ![t] = <<>>]
                    /\ neighbors' = [neighbors EXCEPT ![t] = <<>>]
                    /\ private' = [private EXCEPT ![t] = <<>>]
                    /\ slab' = [slab EXCEPT ![t] = EmptySlab]
                    /\ reg' = [reg EXCEPT ![t] = NoReg]
                    /\ UNCHANGED <<started, active>>
    /\ UNCHANGED <<registry, counter, nthreads, members, initial, runs, cur,
                   public, fdReady, co, script, sdCount, refused, hist, shim, hnd, rq>>

\* the registered descriptors of thread t that are ready
ReadyFds(t) == {f \in FDs : reg[t][f] /= NoTok /\ fdReady[f]}

\* run_eventloop_once: skipped when the slab is empty; otherwise
\* EventLoop::run_once, which blocks until the poller has an event
run_eventloop_once(t) ==
    /\ pc[t] = "poll"
    /\ IF ~has_io_waiting_task(slab[t])
       THEN UNCHANGED <<slab, reg, private, public>>
       ELSE /\ ReadyFds(t) /= {}
            /\ \E order \in Orders(ReadyFds(t)) :
                 LET evs == [i \in 1..Cardinality(ReadyFds(t)) |->
                               [fd |-> order[i], token |-> reg[t][order[i]]]]
                     st == Dispatch(evs, 1,
                             [slab |-> slab[t], reg |-> reg[t],
                              q |-> [private |-> private[t], public |-> public[t]]])
                 IN /\ slab' = [slab EXCEPT ![t] = st.slab]
                    /\ reg' = [reg EXCEPT ![t] = st.reg]
                    /\ private' = [private EXCEPT ![t] = st.q.private]
                    /\ public' = [public EXCEPT ![t] = st.q.public]
    /\ pc' = [pc EXCEPT ![t] = "private"]
    /\ UNCHANGED <<started, registry, counter, nthreads, members, initial, runs,
                   active, cur, chan, neighbors, fdReady, co, script,
                   gotShutdown, sdCount, refused, hist, shim, hnd, rq>>

\* run_one_work_in_private_queue up to work.resume(), with the loop test
\* and the `continue` that follow a false result or a skipped work
run_one_work_in_private_queue(t) ==
    /\ pc[t] = "private"
    /\ IF private[t] = <<>>
       THEN /\ pc' = [pc EXCEPT ![t] = AfterEmpty("public", slab[t])]
            /\ UNCHANGED <<private, cur, co>>
       ELSE /\ private' = [private EXCEPT ![t] = Tail(@)]
            /\ IF Resumable(co[Head(private[t])])
               THEN /\ co' = [co EXCEPT ![Head(private[t])] = "Running"]
                    /\ cur' = [cur EXCEPT ![t] = Head(private[t])]
                    /\ pc' = [pc EXCEPT ![t] = "run_private"]
               ELSE /\ pc' = [pc EXCEPT ![t] = AfterWork("private", slab[t])]
                    /\ UNCHANGED <<cur, co>>
    /\ iter' = [iter EXCEPT ![t] =
                  IterAt(pc'[t], [@ EXCEPT !.resumed = @ \/ pc'[t] = "run_private"])]
    /\ fresh' = IF private[t] = <<>> THEN fresh ELSE fresh \ {Head(private[t])}
    /\ UNCHANGED <<started, registry, counter, nthreads, members, initial, runs,
                   active, chan, neighbors, public, slab, reg, fdReady, script,
                   gotShutdown, sdCount, refused, capErr, parent, shim, hnd, rq>>

\* run_one_work_in_public_queue: the owner steals from its own deque
run_one_work_in_public_queue(t) ==
    /\ pc[t] = "public"
    /\ IF public[t] = <<>>
       THEN /\ pc' = [pc EXCEPT ![t] = AfterEmpty("steal", slab[t])]
            /\ UNCHANGED <<public, cur, co>>
       ELSE /\ public' = [public EXCEPT ![t] = Tail(@)]
            /\ IF Resumable(co[Head(public[t])])
               THEN /\ co' = [co EXCEPT ![Head(public[t])] = "Running"]
                    /\ cur' = [cur EXCEPT ![t] = Head(public[t])]
                    /\ pc' = [pc EXCEPT ![t] = "run_public"]
               ELSE /\ pc' = [pc EXCEPT ![t] = AfterWork("public", slab[t])]
                    /\ UNCHANGED <<cur, co>>
    /\ iter' = [iter EXCEPT ![t] =
                  IterAt(pc'[t], [@ EXCEPT !.resumed = @ \/ pc'[t] = "run_public"])]
    /\ fresh' = IF public[t] = <<>> THEN fresh ELSE fresh \ {Head(public[t])}
    /\ UNCHANGED <<started, registry, counter, nthreads, members, initial, runs,
                   active, chan, neighbors, private, slab, reg, fdReady, script,
                   gotShutdown, sdCount, refused, capErr, parent, shim, hnd, rq>>

\* steal_works, the ready of every stolen work, and the choice to sleep
StealWorks(t) ==
    /\ pc[t] = "steal"
    /\ LET r == steal_works(neighbors[t], 1, public, <<>>)
           q == ReadyAll([private |-> private[t], public |-> r.pub[t]], r.batch, 1)
       IN /\ public' = [r.pub EXCEPT ![t] = q.public]
          /\ private' = [private EXCEPT ![t] = q.private]
          /\ pc' = [pc EXCEPT ![t] = AfterSteal(r.batch)]
          /\ fresh' = fresh \ Range(r.batch)
    /\ iter' = [iter EXCEPT ![t] = IterAt(pc'[t], @)]
    /\ UNCHANGED <<started, registry, counter, nthreads, members, initial, runs,
                   active, cur, chan, neighbors, slab, reg, fdReady, co, script,
                   gotShutdown, sdCount, refused, capErr, parent, shim, hnd, rq>>

\* thread::sleep_ms(100) is over
Sleep(t) ==
    /\ pc[t] = "sleep"
    /\ pc' = [pc EXCEPT ![t] = "recv"]
    /\ iter' = [iter EXCEPT ![t] = IterAt(pc'[t], @)]
    /\ UNCHANGED <<started, registry, counter, nthreads, members, initial, runs,
                   active, cur, chan, neighbors, private, public, slab, reg,
                   fdReady, co, script, gotShutdown, sdCount, refused, capErr,
                   parent, fresh, shim, hnd, rq>>

\* ------------------------------------------- a resumed coroutine's steps

Running(t) == pc[t] \in RunPcs
Phase(t) == IF pc[t] = "run_private" THEN "private" ELSE "public"
Op(t) == Head(script[cur[t]])

\* work.resume() has returned with the coroutine in state st and the slab
\* sl: resume_coroutine's second match, then the loop test of schedule
Resumed(t, st, sl) ==
    LET q0 == [private |-> private[t], public |-> public[t]]
        q == IF Requeue(st) THEN ready(q0, cur[t]) ELSE q0
    IN /\ private' = [private EXCEPT ![t] = q.private]
       /\ public' = [public EXCEPT ![t] = q.public]
       /\ pc' = [pc EXCEPT ![t] = AfterWork(Phase(t), sl)]
       /\ cur' = [cur EXCEPT ![t] = 0]
       /\ iter' = [iter EXCEPT ![t] = IterAt(AfterWork(Phase(t), sl), @)]

\* start_main's Guard is dropped when the coroutine c ends: Shutdown goes to
\* every sender of the registry
GuardDrop(c) ==
    IF c = initial
    THEN /\ chan' = SendToAll(Shutdown)
         /\ sdCount' = [u \in Threads |->
                          IF u \in Range(registry) /\ Alive(u)
                          THEN sdCount[u] + 1 ELSE sdCount[u]]
    ELSE UNCHANGED <<chan, sdCount>>

\* the coroutine's function returns
CoReturn(t) ==
    /\ Running(t)
    /\ script[cur[t]] = <<>>
    /\ co' = [co EXCEPT ![cur[t]] = "Finished"]
    /\ GuardDrop(cur[t])
    /\ Resumed(t, "Finished", slab[t])
    /\ UNCHANGED <<started, registry, counter, nthreads, members, initial, runs,
                   active, neighbors, slab, reg, fdReady, script, gotShutdown,
                   refused, capErr, parent, fresh, shim, hnd, rq>>

\* the coroutine's function panics
CoPanic(t) ==
    /\ Running(t)
    /\ script[cur[t]] /= <<>>
    /\ Op(t) = PanicOp
    /\ co' = [co EXCEPT ![cur[t]] = "Panicked"]
    /\ script' = [script EXCEPT ![cur[t]] = <<>>]
    /\ GuardDrop(cur[t])
    /\ Resumed(t, "Panicked", slab[t])
    /\ UNCHANGED <<started, registry, counter, nthreads, members, initial, runs,
                   active, neighbors, slab, reg, fdReady, gotShutdown, refused,
                   capErr, parent, fresh, shim, hnd, rq>>

\* the coroutine calls Scheduler::run: the compare-and-swap finds the flag
\* set and run panics (were the flag clear, run would go on)
CoRun(t) ==
    /\ Running(t)
    /\ script[cur[t]] /= <<>>
    /\ Op(t) = RunOp
    /\ IF compare_and_swap(started).prev /= FALSE
       THEN /\ co' = [co EXCEPT ![cur[t]] = "Panicked"]
            /\ script' = [script EXCEPT ![cur[t]] = <<>>]
            /\ refused' = TRUE
            /\ GuardDrop(cur[t])
            /\ Resumed(t, "Panicked", slab[t])
            /\ UNCHANGED <<started, active>>
       ELSE /\ started' = compare_and_swap(started).now
            /\ active' = active + 1
            /\ script' = [script EXCEPT ![cur[t]] = Tail(@)]
            /\ UNCHANGED <<co, refused, chan, sdCount, private, public, pc, cur,
                           iter>>
    /\ UNCHANGED <<registry, counter, nthreads, members, initial, runs,
                   neighbors, slab, reg, fdReady, gotShutdown, capErr, parent,
                   fresh, shim, hnd, rq>>

\* Coroutine::sched() in user code
CoYield(t) ==
    /\ Running(t)
    /\ script[cur[t]] /= <<>>
    /\ Op(t) = Yield
    /\ co' = [co EXCEPT ![cur[t]] = "Suspended"]
    /\ script' = [script EXCEPT ![cur[t]] = Tail(@)]
    /\ Resumed(t, "Suspended", slab[t])
    /\ UNCHANGED <<started, registry, counter, nthreads, members, initial, runs,
                   active, chan, neighbors, slab, reg, fdReady, gotShutdown,
                   sdCount, refused, capErr, parent, fresh, shim, hnd, rq>>

\* Scheduler::spawn from a coroutine: the new coroutine is made ready, then
\* Coroutine::sched() yields the caller, which resume_coroutine makes ready
CoSpawn(t) ==
    /\ Running(t)
    /\ script[cur[t]] /= <<>>
    /\ Op(t) = SpawnOp
    /\ \E s \in Scripts :
         /\ SpawnCount(s) <= Budget
         /\ script' = [script EXCEPT ![cur[t]] = Tail(@), ![NextCoro] = s]
    /\ co' = [co EXCEPT ![cur[t]] = "Suspended", ![NextCoro] = "Suspended"]
    /\ LET q1 == ready([private |-> private[t], public |-> public[t]], NextCoro)
           q == IF Requeue("Suspended") THEN ready(q1, cur[t]) ELSE q1
       IN /\ private' = [private EXCEPT ![t] = q.private]
          /\ public' = [public EXCEPT ![t] = q.public]
    /\ pc' = [pc EXCEPT ![t] = AfterWork(Phase(t), slab[t])]
    /\ cur' = [cur EXCEPT ![t] = 0]
    /\ iter' = [iter EXCEPT ![t] = IterAt(AfterWork(Phase(t), slab[t]), @)]
    /\ parent' = [parent EXCEPT ![NextCoro] = cur[t]]
    /\ fresh' = fresh \cup {NextCoro}
    /\ UNCHANGED <<started, registry, counter, nthreads, members, initial, runs,
                   active, chan, neighbors, slab, reg, fdReady, gotShutdown,
                   sdCount, refused, capErr, shim, hnd, rq>>

\* user code makes a descriptor ready (writes to the peer of a socket)
CoNotify(t) ==
    /\ Running(t)
    /\ script[cur[t]] /= <<>>
    /\ Op(t)[1] = "notify"
    /\ fdReady' = [fdReady EXCEPT ![Op(t)[2]] = TRUE]
    /\ script' = [script EXCEPT ![cur[t]] = Tail(@)]
    /\ UNCHANGED <<started, registry, counter, nthreads, members, initial, runs,
                   active, pc, cur, chan, neighbors, private, public, slab, reg,
                   co, gotShutdown, sdCount, refused, hist, shim, hnd, rq>>

\* EventLoop::register_opt fails for a descriptor the poller cannot take or
\* already holds
RegisterFails(r, fd) == fd \notin FDs \/ r[fd] /= NoTok

\* Scheduler::wait_event(fd, interest): slabs.insert(..).unwrap() panics on a
\* full slab; when register_opt fails try! returns the error to the caller;
\* otherwise Coroutine::block()
wait_event(t) ==
    /\ Running(t)
    /\ script[cur[t]] /= <<>>
    /\ Op(t)[1] = "wait"
    /\ IF ~HasRemaining(slab[t])
       THEN /\ co' = [co EXCEPT ![cur[t]] = "Panicked"]
            /\ script' = [script EXCEPT ![cur[t]] = <<>>]
            /\ capErr' = capErr \cup {cur[t]}
            /\ GuardDrop(cur[t])
            /\ Resumed(t, "Panicked", slab[t])
            /\ UNCHANGED <<slab, reg>>
       ELSE /\ slab' = [slab EXCEPT ![t][FreeToken(slab[t])] =
                                       [co |-> cur[t], fd |-> Op(t)[2]]]
            /\ script' = [script EXCEPT ![cur[t]] = Tail(@)]
            /\ capErr' = capErr
            /\ IF RegisterFails(reg[t], Op(t)[2])
               THEN /\ iter' = [iter EXCEPT ![t].grown = TRUE]
                    /\ UNCHANGED <<reg, co, chan, sdCount, private, public, pc, cur>>
               ELSE /\ reg' = [reg EXCEPT ![t][Op(t)[2]] = FreeToken(slab[t])]
                    /\ co' = [co EXCEPT ![cur[t]] = BlockState]
                    /\ Resumed(t, BlockState, slab'[t])
                    /\ UNCHANGED <<chan, sdCount>>
    /\ UNCHANGED <<started, registry, counter, nthreads, members, initial, runs,
                   active, neighbors, fdReady, gotShutdown, refused, parent,
                   fresh, shim, hnd, rq>>

\* ------------------------------------------------------------ environment

\* a descriptor becomes ready (a client connects or sends)
Fire(f) ==
    /\ ~fdReady[f]
    /\ fdReady' = [fdReady EXCEPT ![f] = TRUE]
    /\ UNCHANGED <<started, registry, counter, nthreads, members, initial, runs,
                   active, pc, cur, chan, neighbors, private, public, slab, reg,
                   co, script, gotShutdown, sdCount, refused, hist, shim, hnd, rq>>

\* ------------------------------------------------------------------- Next
ThreadStep(t) ==
    \/ RecvMsg(t)
    \/ run_eventloop_once(t)
    \/ run_one_work_in_private_queue(t)
    \/ run_one_work_in_public_queue(t)
    \/ StealWorks(t)
    \/ Sleep(t)
    \/ CoReturn(t)
    \/ CoPanic(t)
    \/ CoRun(t)
    \/ CoYield(t)
    \/ CoSpawn(t)
    \/ CoNotify(t)
    \/ wait_event(t)

Next ==
    \/ RunCall
    \/ SpawnMain
    \/ \E w \in Workers : WorkerInit(w)
    \/ \E t \in Threads : ThreadStep(t)
    \/ \E f \in FDs : Fire(f)

Spec == Init /\ [][Next]_vars

TypeOK ==
    /\ started \in BOOLEAN
    /\ Budget >= 0
    /\ \A t \in Threads : cur[t] /= 0 <=> pc[t] \in RunPcs
    /\ \A t \in Threads : cur[t] /= 0 => co[cur[t]] = "Running"

\* Threads are preemptively scheduled OS threads: a thread that can take its
\* next step eventually takes it.  Nothing obliges the caller to call run
\* again or a descriptor to become ready.
FairSpec ==
    /\ Init /\ [][Next]_vars
    /\ WF_vars(SpawnMain)
    /\ \A w \in Workers : WF_vars(WorkerInit(w))
    /\ \A t \in Threads : WF_vars(ThreadStep(t))

\* ---------------------------------------------------- the peer scenario
\* The scheduler with three threads in one run: the first call of run uses
\* the caller thread alone, the second call starts PeerWorkers worker
\* threads, and user code is drawn from PeerScripts.

PeerSizes == IF runs = 0 THEN {1} ELSE {PeerWorkers + 1}

PeerRun == Run(PeerPool, PeerSizes)

PeerSpawnMain == SpawnMainOf(PeerScripts)

\* a thread's steps when user code only returns or waits
PeerStep(t) ==
    \/ RecvMsg(t)
    \/ run_eventloop_once(t)
    \/ run_one_work_in_private_queue(t)
    \/ run_one_work_in_public_queue(t)
    \/ StealWorks(t)
    \/ Sleep(t)
    \/ CoReturn(t)
    \/ wait_event(t)

PeerNext ==
    \/ PeerRun
    \/ PeerSpawnMain
    \/ \E w \in Workers : WorkerInit(w)
    \/ \E t \in Threads : PeerStep(t)
    \/ \E f \in FDs : Fire(f)

\* the peer scenario under the fairness of FairSpec
PeerFairSpec ==
    /\ Init /\ [][PeerNext]_vars
    /\ WF_vars(PeerSpawnMain)
    /\ \A w \in Workers : WF_vars(WorkerInit(w))
    /\ \A t \in Threads : WF_vars(PeerStep(t))

\* ------------------------------------------- the I/O shims of main.rs
\* One coroutine calls read, write or accept on one descriptor.  shim.avail
\* is what the descriptor holds ready for the operation: bytes to read, room
\* to write, connections to accept.  The scheduler around it stays as built.

ShimOps == {"read", "write", "accept"}

\* what one successful attempt takes: read_slice and write_slice move at most
\* the buffer's length, accept takes one connection
Taken(op, avail, buf) ==
    IF op = "accept" THEN 1 ELSE IF avail < buf THEN avail ELSE buf

ShimInit ==
    /\ SchedInit
    /\ \E a \in 0..MaxData :
         shim = [ShimOff EXCEPT !.phase = "idle", !.avail = a]
    /\ hnd = HndOff
    /\ rq = RqOff

\* read / write / accept up to Coroutine::block(): the slab insert and the
\* edge-triggered one-shot registration, both unwrapped, come before any
\* attempt on the descriptor
ShimCall ==
    /\ shim.phase = "idle"
    /\ shim.calls < MaxCalls
    /\ \E o \in ShimOps : \E b \in 1..MaxData : \E ok \in BOOLEAN :
         shim' = IF ok
                 THEN [shim EXCEPT !.op = o, !.buf = b, !.calls = @ + 1,
                                   !.readyAtCall = shim.avail > 0,
                                   !.trace = <<"park">>, !.result = "none",
                                   !.phase = "parked"]
                 ELSE [shim EXCEPT !.op = o, !.buf = b, !.calls = @ + 1,
                                   !.readyAtCall = shim.avail > 0,
                                   !.trace = <<>>, !.result = "panic",
                                   !.phase = "done"]
    /\ UNCHANGED <<sched, hist, hnd, rq>>

\* SchedulerHandler::readable / writable: the poller reports the descriptor,
\* the handler removes the slab entry and resumes the handle
ShimWake ==
    /\ shim.phase = "parked"
    /\ shim.avail > 0
    /\ shim' = [shim EXCEPT !.phase = "woken"]
    /\ UNCHANGED <<sched, hist, hnd, rq>>

\* the match after Coroutine::block(): one accept / read_slice / write_slice;
\* Ok(None) panics
ShimAttempt ==
    /\ shim.phase = "woken"
    /\ shim' = IF shim.avail = 0
               THEN [shim EXCEPT !.trace = Append(@, "attempt"),
                                 !.result = "panic", !.phase = "done"]
               ELSE [shim EXCEPT !.trace = Append(@, "attempt"),
                                 !.result = "ok", !.phase = "done",
                                 !.avail = @ - Taken(shim.op, @, shim.buf)]
    /\ UNCHANGED <<sched, hist, hnd, rq>>

\* the call has returned Ok and the coroutine goes on to its next call
ShimReturn ==
    /\ shim.phase = "done"
    /\ shim.result = "ok"
    /\ shim' = [shim EXCEPT !.phase = "idle"]
    /\ UNCHANGED <<sched, hist, hnd, rq>>

\* the peer sends a byte, reads one, or connects
PeerFeeds ==
    /\ shim.phase /= "off"
    /\ shim.avail < MaxData
    /\ shim' = [shim EXCEPT !.avail = @ + 1]
    /\ UNCHANGED <<sched, hist, hnd, rq>>

\* another holder of the descriptor (a try_clone of the stream, a second
\* accepter) takes what was ready
OtherTakes ==
    /\ shim.phase /= "off"
    /\ shim.avail > 0
    /\ shim' = [shim EXCEPT !.avail = @ - 1]
    /\ UNCHANGED <<sched, hist, hnd, rq>>

ShimNext ==
    \/ ShimCall
    \/ ShimWake
    \/ ShimAttempt
    \/ ShimReturn
    \/ PeerFeeds
    \/ OtherTakes

ShimSpec == ShimInit /\ [][ShimNext]_vars

\* ------------------------------------- the handler, call by call
\* The main thread's scheduler stands at its poll step with a slab that
\* wait_event calls have filled; the poller reports one event at a time and
\* may report an event again after its slot was taken.

\* the slots wait_event leaves: a park (slot and registration) or the slot
\* of a failed registration
ParkSlots == {[co |-> c, fd |-> f] : c \in Coros, f \in FDs}
LeakSlots == {[co |-> c, fd |-> BadFd] : c \in Coros}

\* the slabs of a thread that resumes nothing while a coroutine is parked:
\* at most one park, the other slots empty or left by failed registrations
HandlerSlabs ==
    {sl \in [Tokens -> {EmptySlot} \cup ParkSlots \cup LeakSlots] :
        Cardinality({k \in Tokens : sl[k] \in ParkSlots}) <= 1}

\* the shared queues that may stand beside the slab sl: no coroutine twice,
\* none that is parked
HandlerQueues(sl) ==
    {q \in {<<>>} \cup {<<c>> : c \in Coros} \cup {<<c, d>> : c, d \in Coros} :
        /\ \A i, j \in 1..Len(q) : q[i] = q[j] => i = j
        /\ \A i \in 1..Len(q) : \A k \in Tokens :
              sl[k] \in ParkSlots => sl[k].co /= q[i]}

HandlerInit ==
    /\ started = TRUE
    /\ registry = <<Main>>
    /\ counter = 0
    /\ nthreads = 1
    /\ members = {Main}
    /\ initial = 1
    /\ runs = 1
    /\ active = 1
    /\ pc = [t \in Threads |-> IF t = Main THEN "poll" ELSE "unborn"]
    /\ cur = [t \in Threads |-> 0]
    /\ chan = [t \in Threads |-> <<>>]
    /\ neighbors = [t \in Threads |-> <<>>]
    /\ private = [t \in Threads |-> <<>>]
    /\ \E sl \in HandlerSlabs : \E q \in HandlerQueues(sl) :
         /\ \E k \in Tokens : sl[k].co = 1 \/ 1 \in Range(q)
         /\ slab = [t \in Threads |-> IF t = Main THEN sl ELSE EmptySlab]
         /\ public = [t \in Threads |-> IF t = Main THEN q ELSE <<>>]
         /\ reg = [t \in Threads |->
                     [f \in FDs |->
                        IF t = Main /\ \E k \in Tokens : sl[k] \in ParkSlots /\ sl[k].fd = f
                        THEN CHOOSE k \in Tokens : sl[k] \in ParkSlots /\ sl[k].fd = f
                        ELSE NoTok]]
         /\ co = [c \in Coros |->
                    IF \E k \in Tokens : sl[k] \in ParkSlots /\ sl[k].co = c
                    THEN BlockState
                    ELSE IF c \in Range(q) THEN "Suspended"
                    ELSE IF \E k \in Tokens : sl[k].co = c THEN "Finished"
                    ELSE "Unborn"]
         /\ hnd = [HndOff EXCEPT !.fdOf =
                     [k \in Tokens |-> IF sl[k] \in ParkSlots THEN sl[k].fd ELSE 0]]
    /\ fdReady = [f \in FDs |-> TRUE]
    /\ script = [c \in Coros |-> <<>>]
    /\ gotShutdown = [t \in Threads |-> FALSE]
    /\ sdCount = [t \in Threads |-> 0]
    /\ refused = FALSE
    /\ iter = [t \in Threads |-> NoIter]
    /\ capErr = {}
    /\ parent = [c \in Coros |-> 0]
    /\ fresh = {}
    /\ shim = ShimOff
    /\ rq = RqOff

\* EventLoop::run_once reports the event of token k, registered now or
\* reported before, and calls the handler of the descriptor's interest
Deliver(k) ==
    /\ pc[Main] = "poll"
    /\ hnd.n < MaxDeliveries
    /\ hnd.fdOf[k] /= 0
    /\ LET st == Dispatch(<<[fd |-> hnd.fdOf[k], token |-> k]>>, 1,
                          [slab |-> slab[Main], reg |-> reg[Main],
                           q |-> [private |-> private[Main], public |-> public[Main]]])
       IN /\ slab' = [slab EXCEPT ![Main] = st.slab]
          /\ reg' = [reg EXCEPT ![Main] = st.reg]
          /\ private' = [private EXCEPT ![Main] = st.q.private]
          /\ public' = [public EXCEPT ![Main] = st.q.public]
    /\ hnd' = [hnd EXCEPT !.n = @ + 1, !.token = k,
                          !.live = slab[Main][k] /= EmptySlot]
    /\ UNCHANGED <<started, registry, counter, nthreads, members, initial, runs,
                   active, pc, cur, chan, neighbors, fdReady, co, script,
                   gotShutdown, sdCount, refused, hist, shim, rq>>

HandlerNext == \E k \in Tokens : Deliver(k)

HandlerSpec == HandlerInit /\ [][HandlerNext]_vars

\* ------------------------------------- one scheduler's queues, call by call
\* Every spawn, re-enqueue, unpark and steal ends in Scheduler::ready on the
\* thread's own queues, and every resume begins with a pop.  rq is one
\* scheduler's pair of queues under any sequence of these, with as many
\* coroutines as MaxHandles allows; rq.next is the next coroutine to create
\* and rq.turns counts the re-enqueues.

ReadyInit ==
    /\ SchedInit
    /\ shim = ShimOff
    /\ hnd = HndOff
    /\ rq = [RqOff EXCEPT !.next = 1]

\* run_one_work_in_private_queue, then run_one_work_in_public_queue: the
\* handle the loop takes next and the queues without it
PopFront(q) ==
    IF q.private /= <<>>
    THEN [work |-> Head(q.private), q |-> [q EXCEPT !.private = Tail(@)]]
    ELSE [work |-> Head(q.public), q |-> [q EXCEPT !.public = Tail(@)]]

\* Scheduler::spawn (or a stolen or unparked handle arrives): ready(coro)
RqReady ==
    /\ rq.next \in 1..MaxHandles
    /\ rq' = [ready(rq, rq.next) EXCEPT !.next = @ + 1]
    /\ UNCHANGED <<sched, hist, shim, hnd>>

\* the front handle is resumed and comes back suspended: ready(work)
RqRequeue ==
    /\ rq.next /= 0
    /\ rq.turns < MaxTurns
    /\ rq.private \o rq.public /= <<>>
    /\ rq' = [ready(PopFront(rq).q, PopFront(rq).work) EXCEPT !.turns = @ + 1]
    /\ UNCHANGED <<sched, hist, shim, hnd>>

\* the front handle is resumed and finishes, blocks, or is stolen by a peer
RqTake ==
    /\ rq.next /= 0
    /\ rq.private \o rq.public /= <<>>
    /\ rq' = PopFront(rq).q
    /\ UNCHANGED <<sched, hist, shim, hnd>>

ReadyNext == RqReady \/ RqRequeue \/ RqTake

ReadySpec == ReadyInit /\ [][ReadyNext]_vars

\* ------------------------------------------------------------- vocabulary
InQueue(c) == \E t \in Threads : c \in Range(private[t]) \cup Range(public[t])
InSlab(c) == \E t \in Threads : \E k \in Tokens : slab[t][k].co = c
\* c waits in wait_event: a registration carries the token of its slot
Parked(c) ==
    \E t \in Threads : \E f \in FDs :
        reg[t][f] /= NoTok /\ slab[t][reg[t][f]].co = c
Resuming(c) == \E t \in Threads : cur[t] = c
\* the initial coroutine of the latest run has returned or panicked
InitialDone == pc[Main] /= "barrier" /\ initial /= 0 /\ co[initial] \in Terminal

\* a slot of a slab that no registration of the poller carries: wait_event
\* returned the registration's error and left the slot behind
Leaked ==
    \E t \in Threads : \E k \in Tokens :
        slab[t][k] /= EmptySlot /\ \A f \in FDs : reg[t][f] /= k

\* C1 (as claimed): after the initial coroutine has returned or panicked,
\* every worker thread of the run eventually leaves its scheduler loop
\* (stated for the runs in which no wait_event has failed).
C1_ShutdownTerminates ==
    \A t \in Workers :
        (InitialDone /\ t \in members)
            ~> (pc[t] \in {"exited", "norun"} \/ Leaked)

\* a parked coroutine nobody will wake: its descriptor is not ready and no
\* live coroutine's code makes it ready
PermBlocked ==
    \E t \in Threads : \E f \in FDs :
        /\ reg[t][f] /= NoTok
        /\ ~fdReady[f]
        /\ ~\E d \in Coros :
              co[d] \notin Terminal \cup {"Unborn"} /\ Notify(f) \in Range(script[d])

\* no Shutdown has been broadcast yet: the first run, its initial coroutine
\* not ended
NoShutdownYet == runs = 1 /\ pc[Main] \notin {"norun", "barrier"} /\ ~InitialDone

\* C3 (as claimed): while no shutdown has been broadcast and no parked
\* coroutine is permanently blocked, a coroutine on a ready queue is
\* eventually resumed until it ends or parks.  Stated for run(f, 1), where
\* no peer can take the coroutine away, and for the runs in which no
\* wait_event has failed.
C3_SpawnLiveness ==
    \A c \in Coros :
        (InQueue(c) /\ NoShutdownYet /\ nthreads = 1)
            ~> (co[c] \in Terminal \/ Parked(c) \/ ~NoShutdownYet \/ PermBlocked \/ Leaked)

\* C2 (as claimed): when run has returned, every worker thread it started
\* has left its scheduler loop.
C2_RunJoinsWorkers ==
    (pc[Main] = "norun" /\ runs > 0) =>
        \A w \in members \ {Main} : pc[w] = "exited"

\* C4 (as claimed): no coroutine whose state is Blocked is in a private or
\* shared queue.
C4_NoBlockedInQueue ==
    \A c \in Coros : co[c] = "Blocked" => ~InQueue(c)

\* C4 (amended): a coroutine that is still parked is in no queue, and a
\* coroutine enters a queue in state Blocked only by the unpark that removes
\* its parking slot and registration in the same step; its state stays
\* Blocked until it is resumed.
C4_BlockedQueuedOnlyByUnpark ==
    /\ [](\A c \in Coros : (co[c] = "Blocked" /\ InQueue(c)) => ~Parked(c))
    /\ [][\A c \in Coros :
            (co'[c] = "Blocked" /\ InQueue(c)' /\ ~InQueue(c))
                => (Parked(c) /\ ~Parked(c)')]_vars

C4_Witness ==
    \E c \in Coros : co[c] = "Blocked" /\ InQueue(c) /\ ~Parked(c)

\* C5 (as claimed): a coroutine in a terminal state is being resumed by no
\* thread and is held in no ready queue and no parking table.
C5_TerminalHeldNowhere ==
    \A c \in Coros :
        co[c] \in Terminal => ~Resuming(c) /\ ~InQueue(c) /\ ~InSlab(c)

\* C6: a thread whose recv_msg has taken Shutdown from its channel is out of
\* its scheduler loop: it is at none of the loop's steps (poll, drains,
\* steal, sleep, resuming a coroutine).
C6_ShutdownLeavesLoop ==
    \A t \in Threads : gotShutdown[t] => pc[t] \in {"exited", "norun"}

C6_Witness ==
    \E w \in Workers : gotShutdown[w] /\ pc[w] = "exited" /\ public[w] /= <<>>

\* C7: once the initial coroutine of a run has finished or panicked, exactly
\* one Shutdown has been enqueued for each of the run's N threads, and none
\* before.
C7_OneShutdownEach ==
    \A t \in members : sdCount[t] = IF InitialDone THEN 1 ELSE 0

C7_Witness ==
    /\ InitialDone
    /\ co[initial] = "Panicked"
    /\ Cardinality(members) > 1
    /\ \A t \in members : sdCount[t] = 1

\* C8: SCHEDULER_HAS_STARTED is set exactly while the caller is inside run,
\* at most one invocation of run is past its compare-and-swap, and a run
\* refused by the compare-and-swap registers no scheduler, starts no thread
\* and creates or enqueues no coroutine.
C8_SingleRun ==
    /\ [](/\ started <=> pc[Main] /= "norun"
          /\ active = IF started THEN 1 ELSE 0)
    /\ [][(refused' /\ ~refused) =>
            /\ registry' = registry
            /\ started' = started
            /\ private' = private /\ public' = public
            /\ \A c \in Coros : co[c] = "Unborn" <=> co'[c] = "Unborn"
            /\ \A w \in Workers : pc[w] = "unborn" <=> pc'[w] = "unborn"]_vars

C8_Witness == refused /\ runs > 1 /\ started

\* C9: every registration of a thread's poller carries a token that is live
\* in that thread's slab, for the same descriptor, and its coroutine is not
\* being resumed: the registration is gone before the coroutine runs again.
C9_RegistrationsLive ==
    \A t \in Threads : \A f \in FDs :
        reg[t][f] /= NoTok =>
            /\ slab[t][reg[t][f]] /= EmptySlot
            /\ slab[t][reg[t][f]].fd = f
            /\ ~Resuming(slab[t][reg[t][f]].co)

C9_Witness ==
    \E t \in Threads : \E c \in Coros :
        /\ reg[t][1] /= NoTok
        /\ fdReady[1]
        /\ co[c] = "Blocked" /\ InQueue(c)

\* C10: a coroutine parked by wait_event, whose event the poller has not
\* dispatched, is in state Blocked, in no ready queue and resumed by nobody.
C10_ParkedNotRunnable ==
    \A c \in Coros :
        Parked(c) => co[c] = "Blocked" /\ ~InQueue(c) /\ ~Resuming(c)

C10_Witness ==
    \E c \in Coros : \E t \in Threads : Parked(c) /\ cur[t] /= 0

\* the step is thread t's call of wait_event
WaitStep(t) ==
    /\ Running(t)
    /\ script[cur[t]] /= <<>>
    /\ Op(t)[1] = "wait"
    /\ script'[cur[t]] /= script[cur[t]]

\* every slot of thread t's slab is taken
SlabFull(t) == \A k \in Tokens : slab[t][k] /= EmptySlot

Converged(t) == members \ {t} \subseteq Range(neighbors[t])

\* C12 (as claimed): in a run whose threads have all registered and whose
\* shutdown has not been broadcast, every thread's peer vector eventually
\* holds an entry for each of the other threads of the run.
C12_PeerConvergence ==
    \A t \in Threads :
        (t \in members /\ pc[Main] \notin {"norun", "barrier"} /\ ~InitialDone)
            ~> (Converged(t) \/ InitialDone \/ pc[Main] = "norun")

\* C13: when the coroutine a thread is resuming panics, the thread is back
\* in its scheduler loop with the handle dropped: the coroutine is in no
\* queue, the thread's queues, slab, registrations and peer vector are as
\* they were, and with no I/O waiting the thread goes on with the same drain.
C13_PanicContained ==
    [][\A t \in Threads :
         (cur[t] /= 0 /\ co'[cur[t]] = "Panicked") =>
            /\ pc'[t] \in LoopPcs \ RunPcs
            /\ cur'[t] = 0
            /\ ~InQueue(cur[t])'
            /\ private'[t] = private[t] /\ public'[t] = public[t]
            /\ slab'[t] = slab[t] /\ reg'[t] = reg[t]
            /\ neighbors'[t] = neighbors[t]
            /\ SlabIsEmpty(slab[t]) => pc'[t] = Phase(t)
      ]_vars

C13_Witness ==
    /\ nthreads = 1 /\ runs = 1
    /\ \E c, d \in Coros :
          /\ c /= initial /\ co[c] = "Panicked"
          /\ cur[Main] = d /\ co[d] = "Running"

\* the handles in thread t's two ready queues
Queued(t) == Range(private[t]) \cup Range(public[t])

\* C14 (as claimed): a handle made ready on a thread whose private queue
\* holds fewer than MAX_PRIVATE_WORK_NUM handles is appended to the private
\* queue; it goes to the shared queue only when the private queue is full.
C14_PrivateFirst ==
    [][\A t \in Threads : \A c \in Coros :
         (c \notin Queued(t) /\ c \in Queued(t)') =>
            IF Len(private[t]) < MAX_PRIVATE_WORK_NUM
            THEN c \in Range(private'[t])
            ELSE c \in Range(public'[t])
      ]_vars

\* the step in which the coroutine running on t calls Scheduler::spawn
SpawnStep(t) ==
    /\ Running(t)
    /\ script[cur[t]] /= <<>>
    /\ Op(t) = SpawnOp
    /\ script'[cur[t]] /= script[cur[t]]

\* the order in which t's loop takes its queued handles
DrainOrder(t) == private[t] \o public[t]

\* C15: Scheduler::spawn called by a coroutine C running on thread T puts the
\* new coroutine at the back of T's ready queues and yields C once: C is left
\* suspended and is queued right behind the new coroutine; and C is not
\* resumed again while the new coroutine still sits where spawn put it (it is
\* first taken off the queue, by T or by a stealing peer).
C15_SpawnThenYield ==
    [][/\ \A t \in Threads :
            SpawnStep(t) =>
               /\ DrainOrder(t)' = DrainOrder(t) \o <<NextCoro, cur[t]>>
               /\ co'[cur[t]] = "Suspended"
               /\ co'[NextCoro] = "Suspended"
               /\ script'[cur[t]] = Tail(script[cur[t]])
               /\ cur'[t] = 0
               /\ parent'[NextCoro] = cur[t]
               /\ NextCoro \in fresh'
       /\ \A c \in Coros :
            (co[c] /= "Running" /\ co'[c] = "Running") =>
               \A d \in fresh : parent[d] /= c
      ]_vars

\* a spawned coroutine runs while the coroutine that spawned it is suspended
\* and waits in a queue
C15_Witness ==
    \E d \in Coros :
        /\ parent[d] /= 0
        /\ d \notin fresh
        /\ co[d] = "Running"
        /\ Resuming(d)
        /\ co[parent[d]] = "Suspended"
        /\ InQueue(parent[d])

\* how many times the handle of c occurs in the sequence q
Occurrences(q, c) == Cardinality({i \in 1..Len(q) : q[i] = c})

\* the number of places that hold a handle of c: queue entries and slab slots
\* of every thread
Holders(c) ==
    LET n == [t \in Threads |->
                Occurrences(private[t], c) + Occurrences(public[t], c)
                + Cardinality({k \in Tokens : slab[t][k].co = c})]
        Sum[T \in SUBSET Threads] ==
            IF T = {} THEN 0
            ELSE LET u == CHOOSE x \in T : TRUE IN n[u] + Sum[T \ {u}]
    IN Sum[Threads]

\* C16 (as claimed): no coroutine is resumed by two threads at once, and a
\* coroutine that waits to be resumed (suspended or blocked, on no thread) is
\* never held twice: it is in at most one queue entry or slab slot, and in
\* exactly one as long as no thread has left its loop and dropped its slab.
C16_HandleExclusive ==
    \A c \in Coros :
        /\ Cardinality({t \in Threads : cur[t] = c}) <= 1
        /\ (~Resuming(c) /\ co[c] \in {"Suspended", "Blocked"}) =>
              /\ Holders(c) <= 1
              /\ (\A t \in Threads : pc[t] /= "exited") => Holders(c) = 1

\* C17 (as claimed): read, write and accept begin with an attempt on the
\* descriptor and park the coroutine only after that attempt; a call made
\* when the descriptor is ready does not park at all.
C17_AttemptBeforePark ==
    shim.phase /= "off" =>
        /\ shim.trace /= <<>> => shim.trace[1] = "attempt"
        /\ shim.readyAtCall => "park" \notin Range(shim.trace)

\* t's drain ends after a resumed coroutine came back: the loop goes to its
\* next iteration instead of taking the next handle
StopsAfterWork(t) == pc[t] \in RunPcs /\ pc'[t] = "recv"

\* t finds its private queue empty and goes to the next iteration although
\* its shared queue holds work
SkipsSharedDrain(t) ==
    /\ pc[t] = "private"
    /\ private[t] = <<>>
    /\ public[t] /= <<>>
    /\ pc'[t] = "recv"

\* C18 (as claimed): a drain that still has work stops only because a
\* coroutine resumed in this iteration added a slab entry; entries that were
\* in the slab before the drain began do not stop it, so the handles the poll
\* step made ready are resumed in the same iteration.
C18_OnlyNewEntriesStopDrain ==
    [][\A t \in Threads :
         /\ StopsAfterWork(t) =>
               \/ iter[t].grown
               \/ \E k \in Tokens : slab[t][k] = EmptySlot /\ slab'[t][k] /= EmptySlot
               \/ private[t] \o public[t] = <<>>
         /\ SkipsSharedDrain(t) => iter[t].grown
      ]_vars

\* C19 (as claimed): a thread sleeps at the end of an iteration only if it
\* resumed no coroutine of its own queues in that iteration.
C19_NoSleepAfterLocalWork ==
    \A t \in Threads : pc[t] = "sleep" => ~iter[t].resumed

\* t takes the steal step of its loop
StealStep(t) == pc[t] = "steal" /\ pc'[t] /= "steal"

\* no peer t knows has a handle in its shared queue
NothingToSteal(t) == \A n \in Range(neighbors[t]) : public[n] = <<>>

\* C19 (amended): a thread sleeps exactly when it reaches the steal step of
\* an iteration and steals nothing; the sleep is entered from no other step,
\* and what the iteration resumed before does not matter.
C19_SleepsIffNothingStolen ==
    [][\A t \in Threads :
         /\ StealStep(t) => (pc'[t] = "sleep" <=> NothingToSteal(t))
         /\ (StealStep(t) /\ pc'[t] = "sleep") =>
               private'[t] = private[t] /\ public' = public
         /\ (pc[t] /= "sleep" /\ pc'[t] = "sleep") => StealStep(t)
      ]_vars

\* a thread sleeps at the end of an iteration in which it resumed a coroutine
C19_Witness ==
    \E t \in Threads : pc[t] = "sleep" /\ iter[t].resumed

\* t takes step 1 of a loop iteration: recv_msg
RecvStep(t) == pc[t] = "recv" /\ pc'[t] /= "recv"

\* C20 (as claimed): recv_msg consumes every message pending when it begins,
\* up to and including the first Shutdown: with a Shutdown pending the thread
\* leaves its loop in this step, and otherwise the channel is left empty and
\* every pending NewNeighbor is appended to the neighbors.
C20_RecvDrainsChannel ==
    [][\A t \in Threads :
         RecvStep(t) =>
            IF \E i \in 1..Len(chan[t]) : chan[t][i].type = "Shutdown"
            THEN gotShutdown'[t] /\ pc'[t] \in {"exited", "norun"}
            ELSE /\ chan'[t] = <<>>
                 /\ neighbors'[t] =
                       neighbors[t] \o [i \in 1..Len(chan[t]) |-> chan[t][i].from]
      ]_vars

\* t is at the poll step and cannot leave it: run_once has no event to
\* return with
BlocksInPoller(t) == pc[t] = "poll" /\ ~ENABLED run_eventloop_once(t)

\* C21: a thread blocks in the poller only while its slab holds an entry; a
\* thread whose slab is empty passes the poll step, whatever its queues hold.
C21_PollOnlyWithParked ==
    \A t \in Threads : BlocksInPoller(t) => ~SlabIsEmpty(slab[t])

\* a thread has passed the poll step with an empty slab and queued work while
\* no descriptor was ready, and another thread blocks in the poller
C21_Witness ==
    \E t, u \in Threads :
        /\ pc[t] = "private"
        /\ SlabIsEmpty(slab[t])
        /\ public[t] /= <<>>
        /\ \A f \in FDs : ~fdReady[f]
        /\ BlocksInPoller(u)

\* the threads whose shared queue loses its front handle in this step
Victims(t) ==
    {u \in Threads \ {t} : public[u] /= <<>> /\ public'[u] = Tail(public[u])}

\* C22: the steal step is taken with the thread's slab empty; it takes at
\* most the front handle of each neighbor's shared queue and nothing of any
\* other thread; the handles taken are no longer in their victims' queues
\* and are exactly what the thread's own queues gain, in number as well.
C22_TheftStep ==
    [][\A t \in Threads :
         StealStep(t) =>
            /\ SlabIsEmpty(slab[t])
            /\ \A u \in Threads \ {t} :
                  /\ public'[u] = public[u] \/ u \in Victims(t)
                  /\ u \in Victims(t) => u \in Range(neighbors[t])
                  /\ private'[u] = private[u]
            /\ \A u \in Victims(t) :
                  /\ Head(public[u]) \notin Range(public'[u])
                  /\ Head(public[u]) \in Queued(t)'
            /\ Queued(t)' = Queued(t) \cup {Head(public[u]) : u \in Victims(t)}
            /\ Len(DrainOrder(t)') = Len(DrainOrder(t)) + Cardinality(Victims(t))
            /\ co' = co
      ]_vars

\* a worker holds the initial coroutine, which Scheduler::run put on the main
\* thread's queue: the worker stole it
C22_Witness ==
    \E w \in Workers :
        /\ initial /= 0
        /\ initial \in Queued(w)
        /\ SlabIsEmpty(slab[w])

\* C23: a handler call for a token whose slot is empty changes neither the
\* slab nor the registrations nor any queue nor any coroutine; a call for a
\* live token empties exactly that slot, drops the registration of its
\* descriptor and appends its handle once to the thread's queues.  A second
\* report of the same event therefore enqueues nothing.
C23_StaleCallbackIsNoOp ==
    [][hnd'.n = hnd.n + 1 =>
         IF slab[Main][hnd'.token] = EmptySlot
         THEN /\ slab' = slab
              /\ reg' = reg
              /\ private' = private
              /\ public' = public
              /\ co' = co
         ELSE /\ slab' = [slab EXCEPT ![Main][hnd'.token] = EmptySlot]
              /\ reg' = [reg EXCEPT ![Main][slab[Main][hnd'.token].fd] = NoTok]
              /\ DrainOrder(Main)' = DrainOrder(Main) \o <<slab[Main][hnd'.token].co>>
              /\ co' = co
      ]_vars

\* the poller has reported one event twice: the second call found the slot
\* empty, and the coroutine of the park is queued once, in no slot
C23_Witness ==
    /\ hnd.n = 2
    /\ ~hnd.live
    /\ \E c \in Coros :
         /\ co[c] = BlockState
         /\ Occurrences(DrainOrder(Main), c) = 1
         /\ \A k \in Tokens : slab[Main][k] \notin ParkSlots

\* C24: the private queue of every thread holds at most
\* MAX_PRIVATE_WORK_NUM handles, whatever sequence of ready calls and pops
\* its scheduler has gone through.
C24_PrivateQueueBounded ==
    /\ Len(rq.private) <= MAX_PRIVATE_WORK_NUM
    /\ \A t \in Threads : Len(private[t]) <= MAX_PRIVATE_WORK_NUM

\* more handles than MAX_PRIVATE_WORK_NUM wait on one scheduler, one of them
\* re-enqueued after the others
C24_Witness ==
    /\ Len(rq.private) + Len(rq.public) > MAX_PRIVATE_WORK_NUM
    /\ \E i \in 1..(Len(rq.public) - 1) : rq.public[i] > rq.public[i + 1]

\* t has a scheduler: it has registered and has not left its loop
HasLiveScheduler(t) == HasScheduler(t) /\ pc[t] /= "exited"

\* the positions of chan[t] that hold a NewNeighbor
PendingAt(t) == {i \in 1..Len(chan[t]) : chan[t][i].type = "NewNeighbor"}

\* the threads those messages name
PendingPeers(t) == {chan[t][i].from : i \in PendingAt(t)}

\* neighbors[t] and the pending NewNeighbor messages of t name every
\* registered thread but t exactly once
PeerSetExact(t) ==
    /\ t \notin Range(neighbors[t])
    /\ \A i, j \in 1..Len(neighbors[t]) : neighbors[t][i] = neighbors[t][j] => i = j
    /\ \A i, j \in PendingAt(t) : chan[t][i].from = chan[t][j].from => i = j
    /\ Range(neighbors[t]) \cap PendingPeers(t) = {}
    /\ Range(neighbors[t]) \cup PendingPeers(t) = Range(registry) \ {t}

\* C25: for every scheduler t, neighbors[t] holds neither t nor any thread
\* twice, and together with the NewNeighbor messages pending in chan[t] it
\* names exactly the registry entries other than t's; neighbors[t] only
\* grows (by appending) as long as the scheduler lives.
C25_PeerSet ==
    [][\A t \in Threads :
         /\ HasLiveScheduler(t) => PeerSetExact(t)
         /\ HasLiveScheduler(t)' => PeerSetExact(t)'
         /\ (HasLiveScheduler(t) /\ HasLiveScheduler(t)') =>
               /\ Len(neighbors'[t]) >= Len(neighbors[t])
               /\ SubSeq(neighbors'[t], 1, Len(neighbors[t])) = neighbors[t]
      ]_vars

\* three schedulers are registered; one knows both of its peers and another
\* still has a NewNeighbor to read
C25_Witness ==
    /\ Len(registry) = 3
    /\ \E t, u \in Threads :
         /\ HasLiveScheduler(t)
         /\ Len(neighbors[t]) = 2
         /\ HasLiveScheduler(u)
         /\ PendingPeers(u) /= {}
         /\ neighbors[u] /= <<>>

\* the wait_event call of this step finds a free slot and its registration
\* is refused
FailedWaitStep(t) ==
    /\ WaitStep(t)
    /\ ~SlabFull(t)
    /\ RegisterFails(reg[t], Op(t)[2])

\* C26 (as claimed): a wait_event whose registration fails returns to the
\* caller, which runs on, and leaves the slab and the registrations as they
\* were before the call; no slot holds a coroutine that is not parked.
C26_FailedWaitLeavesNoSlot ==
    [][\A t \in Threads :
         FailedWaitStep(t) =>
            /\ co'[cur[t]] = "Running"
            /\ cur'[t] = cur[t]
            /\ reg' = reg
            /\ slab' = slab
            /\ ~Leaked'
      ]_vars

====
